---------------------------- MODULE Spec2Model ----------------------------
(***************************************************************************)
(* A model of the two demonstration scripts src/scispacy.py and            *)
(* src/stanza_bio.py: the text normalizer, the token and dependency        *)
(* reports, the dependency-diagram exporter, the per-model entity reporter *)
(* (show_ner) and the rule-based chunk matcher.                            *)
(*                                                                         *)
(* A Python str is a sequence of one-character strings.  The pretrained    *)
(* pipelines are opaque: what they return (entities, tags, heads, sentence *)
(* boundaries) is drawn from bounded sets.  The scripts are sequential;    *)
(* pc is the position of the running script.                               *)
(***************************************************************************)
EXTENDS Integers, Sequences, FiniteSets, TLC

VARIABLES
  script,       \* which script runs: "scispacy" or "stanza_bio"
  pc,           \* position in the script
  out,          \* standard output: the sequence of printed rows
  i,            \* the index of the loop being executed
  raw,          \* the text literal as defined in the source
  text,         \* the global `text`
  nlp,          \* the global `nlp`: the pipeline object it is bound to (0: unbound)
  loads,        \* every pipeline load performed so far, in order
  annotations,  \* every call pipeline(text) performed so far, in order
  call,         \* number of show_ner calls begun
  local_nlp,    \* show_ner's local `nlp`
  ents,         \* show_ner's local doc.ents / doc.entities
  doc,          \* the annotated document of the reports: a sequence of sentences
  si,           \* the index of the sentence being reported
  tags,         \* the fine-grained tags of the chunk matcher's document
  matches,      \* the matcher's result, in the order it reports it
  chunk_spans,  \* the global `chunk_spans` (the filtered spans)
  fs,           \* the entry `spacy-deps` of the working directory
  run,          \* number of invocations of the script so far
  sents,        \* number of sentences of the exporter's document
  history,      \* the earlier invocations: sentences and how each ended
  err,          \* the uncaught exception, "none" while there is none
  steps         \* the stages the current invocation has executed

textVars   == <<raw, text>>
nerVars    == <<nlp, loads, annotations, call, local_nlp, ents>>
reportVars == <<doc, si>>
chunkVars  == <<tags, matches, chunk_spans>>
exportVars == <<fs, run, sents, history, err, steps>>
vars == <<script, pc, out, i, textVars, nerVars, reportVars, chunkVars, exportVars>>

Scripts == {"scispacy", "stanza_bio"}

-----------------------------------------------------------------------------
(* Bounds *)

MaxLen == 3        \* longest enumerated text literal
MaxEnts == 1       \* most entities a pipeline returns

-----------------------------------------------------------------------------
(* The text literal (scispacy.py 41-55, stanza_bio.py 47-61) *)

SampleText ==
  <<
    "\n",
    "C","h","a","r","a","c","t","e","r","i","z","a","t","i","o","n",
    " ","o","f"," ","a"," ","m","o","s","q","u","i","t","o","c","i",
    "d","a","l"," ","B","a","c","i","l","l","u","s"," ","t","h","u",
    "r","i","n","g","i","e","n","s","i","s"," ","s","e","r","o","v",
    "a","r"," ","s","o","t","t","o"," ","s","t","r","a","i","n","\n",
    "i","s","o","l","a","t","e","d"," ","f","r","o","m"," ","O","k",
    "i","n","a","w","a",","," ","J","a","p","a","n","."," ","T","o",
    " ","c","h","a","r","a","c","t","e","r","i","z","e"," ","t","h",
    "e"," ","m","o","s","q","u","i","t","o","c","i","d","a","l"," ",
    "a","c","t","i","v","i","t","y"," ","o","f","\n",
    "p","a","r","a","s","p","o","r","a","l"," ","i","n","c","l","u",
    "s","i","o","n","s"," ","o","f"," ","t","h","e"," ","B","a","c",
    "i","l","l","u","s"," ","t","h","u","r","i","n","g","i","e","n",
    "s","i","s"," ","s","e","r","o","v","a","r"," ","s","o","t","t",
    "o"," ","s","t","r","a","i","n","\n",
    "9","6","-","O","K","-","8","5","-","2","4",","," ","f","o","r",
    " ","c","o","m","p","a","r","i","s","o","n"," ","w","i","t","h",
    " ","t","w","o"," ","w","e","l","l","-","c","h","a","r","a","c",
    "t","e","r","i","z","e","d"," ","m","o","s","q","u","i","t","o",
    "c","i","d","a","l"," ","s","t","r","a","i","n","s",".","\n",
    "T","h","e"," ","s","t","r","a","i","n"," ","9","6","-","O","K",
    "-","8","5","-","2","4"," ","s","i","g","n","i","f","i","c","a",
    "n","t","l","y"," ","d","i","f","f","e","r","e","d"," ","f","r",
    "o","m"," ","t","h","e"," ","e","x","i","s","t","i","n","g"," ",
    "m","o","s","q","u","i","t","o","c","i","d","a","l","\n",
    "B","."," ","t","h","u","r","i","n","g","i","e","n","s","i","s",
    " ","s","t","r","a","i","n","s"," ","i","n",":"," ","(","1",")",
    " ","l","a","c","k","i","n","g"," ","t","h","e"," ","l","a","r",
    "v","i","c","i","d","a","l"," ","a","c","t","i","v","i","t","y",
    " ","a","g","a","i","n","s","t"," ","C","u","l","e","x","\n",
    "p","i","p","i","e","n","s"," ","m","o","l","e","s","t","u","s",
    " ","a","n","d"," ","h","a","e","m","o","l","y","t","i","c"," ",
    "a","c","t","i","v","i","t","y",","," ","a","n","d"," ","(","2",
    ")"," ","S","D","S","-","P","A","G","E"," ","p","r","o","f","i",
    "l","e","s",",","\n",
    "i","m","m","u","n","o","l","o","g","i","c","a","l"," ","p","r",
    "o","p","e","r","t","i","e","s"," ","a","n","d"," ","N","-","t",
    "e","r","m","i","n","a","l"," ","a","m","i","n","o"," ","a","c",
    "i","d"," ","s","e","q","u","e","n","c","e","s"," ","o","f"," ",
    "p","a","r","a","s","p","o","r","a","l","\n",
    "i","n","c","l","u","s","i","o","n"," ","p","r","o","t","e","i",
    "n","s","."," ","I","t"," ","i","s"," ","c","l","e","a","r"," ",
    "f","r","o","m"," ","t","h","e"," ","r","e","s","u","l","t","s",
    " ","t","h","a","t"," ","t","h","e"," ","s","t","r","a","i","n",
    " ","9","6","-","O","K","-","8","5","-","2","4","\n",
    "s","y","n","t","h","e","s","i","z","e","s"," ","a"," ","n","o",
    "v","e","l"," ","m","o","s","q","u","i","t","o","c","i","d","a",
    "l"," ","C","r","y"," ","p","r","o","t","e","i","n"," ","w","i",
    "t","h"," ","a"," ","u","n","i","q","u","e"," ","t","o","x","i",
    "c","i","t","y"," ","s","p","e","c","t","r","u","m",".","\n",
    "T","h","i","s"," ","i","s"," ","t","h","e"," ","f","i","r","s",
    "t"," ","r","e","p","o","r","t"," ","o","f"," ","t","h","e"," ",
    "o","c","c","u","r","r","e","n","c","e"," ","o","f"," ","a"," ",
    "m","o","s","q","u","i","t","o","c","i","d","a","l"," ","B",".",
    " ","t","h","u","r","i","n","g","i","e","n","s","i","s","\n",
    "s","t","r","a","i","n"," ","w","i","t","h"," ","a","n"," ","u",
    "n","u","s","u","a","l"," ","t","o","x","i","c","i","t","y"," ",
    "s","p","e","c","t","r","u","m",","," ","l","a","c","k","i","n",
    "g"," ","t","h","e"," ","a","c","t","i","v","i","t","y"," ","a",
    "g","a","i","n","s","t"," ","t","h","e","\n",
    "c","u","l","i","c","i","n","e"," ","m","o","s","q","u","i","t",
    "o",".","\n"
  >>

\* The example of the specification: "a\n\nb\nc "
ExampleText == <<"a", "\n", "\n", "b", "\n", "c", " ">>

\* A text with a tab and two separate newline runs inside
TabbedText == <<" ", "a", "\t", "\n", "b", "\n", "\n", "\n", " ", "c", "\n">>

Alphabet == {"a", " ", "\t", "\n"}

RECURSIVE StringsUpTo(_)
StringsUpTo(n) ==
  IF n = 0 THEN {<<>>}
  ELSE LET shorter == StringsUpTo(n - 1)
       IN  shorter \cup {Append(s, c) : s \in {t \in shorter : Len(t) = n - 1}, c \in Alphabet}

Texts == StringsUpTo(MaxLen) \cup {SampleText, ExampleText, TabbedText}

-----------------------------------------------------------------------------
(* The text normalizer: re.sub(r'\n+', ' ', text).strip() *)

\* str.strip() without argument removes Unicode whitespace
Whitespace == {" ", "\t", "\n", "\r"}

\* The leftmost position >= pos where the pattern \n+ can start, 0 if none
MatchStart(s, pos) ==
  IF \E j \in pos..Len(s) : s[j] = "\n"
  THEN CHOOSE j \in pos..Len(s) : s[j] = "\n" /\ \A k \in pos..(j - 1) : s[k] # "\n"
  ELSE 0

\* A mutation: the pattern \n, which matches one newline only
MatchEndSingle(s, j) == j

\* The last position of the match of \n+ starting at j: + is greedy
MatchEnd(s, j) ==
  CHOOSE e \in j..Len(s) :
    /\ \A k \in j..e : s[k] = "\n"
    /\ (e = Len(s) \/ s[e + 1] # "\n")

\* A mutation: re.sub with count=1, only the first match is replaced
ReSubOnce(s, pos) ==
  LET j == MatchStart(s, pos)
  IN  IF j = 0 THEN SubSeq(s, pos, Len(s))
      ELSE SubSeq(s, pos, j - 1) \o <<" ">> \o SubSeq(s, MatchEnd(s, j) + 1, Len(s))

\* re.sub(r'\n+', ' ', s) from position pos on: every non-overlapping match,
\* left to right, is replaced by one space; the text between matches is copied
RECURSIVE ReSub(_, _)
ReSub(s, pos) ==
  LET j == MatchStart(s, pos)
  IN  IF j = 0 THEN SubSeq(s, pos, Len(s))
      ELSE SubSeq(s, pos, j - 1) \o <<" ">> \o ReSub(s, MatchEnd(s, j) + 1)

\* A mutation: rstrip(), the leading whitespace stays
StripRight(s) ==
  IF \A k \in 1..Len(s) : s[k] \in Whitespace THEN <<>>
  ELSE SubSeq(s, 1, CHOOSE b \in 1..Len(s) :
                       s[b] \notin Whitespace /\ \A k \in (b + 1)..Len(s) : s[k] \in Whitespace)

\* str.strip(): the leading and the trailing whitespace is removed
Strip(s) ==
  IF \A k \in 1..Len(s) : s[k] \in Whitespace THEN <<>>
  ELSE LET a == CHOOSE a \in 1..Len(s) :
                  s[a] \notin Whitespace /\ \A k \in 1..(a - 1) : s[k] \in Whitespace
           b == CHOOSE b \in 1..Len(s) :
                  s[b] \notin Whitespace /\ \A k \in (b + 1)..Len(s) : s[k] \in Whitespace
       IN  SubSeq(s, a, b)

Normalize(s) == Strip(ReSub(s, 1))

-----------------------------------------------------------------------------
(* Pipelines and the per-model entity reporter *)

\* The package the main pipeline is loaded from (scispacy.py 34, stanza_bio.py 40)
MainModel == IF script = "scispacy" THEN "en_core_sci_sm" ELSE "craft"

\* The models show_ner is called with, in call order
\* (scispacy.py 152-161, stanza_bio.py 203-205)
NerModels ==
  IF script = "scispacy"
  THEN <<"en_ner_craft_md", "en_ner_bc5cdr_md", "en_ner_jnlpba_md", "en_ner_bionlp13cg_md">>
  ELSE <<"jnlpba", "linnaeus", "s800">>

\* spacy.load(model) / stanza.Pipeline(...): a new pipeline object each time;
\* a pipeline is named by the position of its load in `loads`
Load(model, by, c) == Append(loads, [model |-> model, by |-> by, call |-> c])

\* pipeline(text): recorded with the pipeline and the text it is applied to
Annotate(pipeline, t, by, c) ==
  Append(annotations, [pipeline |-> pipeline, text |-> t, by |-> by, call |-> c])

\* What an entity recogniser returns on the text: at most MaxEnts entities
EntityLists == UNION {[1..n -> [label : {"ENTITY"}, text : {"e"}]] : n \in 0..MaxEnts}

NoReport == /\ doc = <<>>
            /\ si = 0
NoChunks == /\ tags = <<>>
            /\ matches = <<>>
            /\ chunk_spans = <<>>
NoExport == /\ fs = [kind |-> "absent", files |-> {}]
            /\ run = 1
            /\ sents = 0
            /\ history = <<>>
            /\ err = "none"
            /\ steps = <<>>
NoNer == /\ nlp = 0
         /\ loads = <<>>
         /\ annotations = <<>>
         /\ call = 0
         /\ local_nlp = 0
         /\ ents = <<>>
NoText == /\ raw = <<>>
          /\ text = <<>>

\* nlp = spacy.load('en_core_sci_sm') / nlp = stanza.Pipeline(..., package='craft')
LoadMain ==
  /\ pc = "load"
  /\ loads' = Load(MainModel, "main", 0)
  /\ nlp' = Len(loads')
  /\ pc' = "define_text"
  /\ UNCHANGED <<script, out, i, textVars, annotations, call, local_nlp, ents,
                 reportVars, chunkVars, exportVars>>

\* text = """...""" ; print(text)
PrintRaw ==
  /\ pc = "define_text"
  /\ text' = raw
  /\ out' = Append(out, [kind |-> "text", value |-> raw])
  /\ pc' = "normalize"
  /\ UNCHANGED <<script, i, raw, nerVars, reportVars, chunkVars, exportVars>>

\* text = re.sub(r'\n+', ' ', text).strip() ; print(text)
NormalizeText ==
  /\ pc = "normalize"
  /\ text' = Normalize(text)
  /\ out' = Append(out, [kind |-> "text", value |-> text'])
  /\ pc' = "annotate"
  /\ UNCHANGED <<script, i, raw, nerVars, reportVars, chunkVars, exportVars>>

\* doc = nlp(text)
AnnotateMain ==
  /\ pc = "annotate"
  /\ annotations' = Annotate(nlp, text, "main", 0)
  /\ pc' = "ner"
  /\ UNCHANGED <<script, out, i, textVars, nlp, loads, call, local_nlp, ents,
                 reportVars, chunkVars, exportVars>>

\* A mutation: show_ner annotates with the pipeline the main script loaded
ReusedPipeline(model, c) == [loads |-> loads, pipeline |-> nlp]

\* show_ner, first line: nlp = spacy.load(ner_model), a local of show_ner
\* (stanza_bio.py: stanza.Pipeline(..., processors={'ner': ner_model}))
show_ner_pipeline(model, c) ==
  LET loaded == Load(model, "show_ner", c)
  IN  [loads |-> loaded, pipeline |-> Len(loaded)]

\* show_ner(text, NerModels[call + 1]) is called: nlp = load(ner_model)
show_ner_load ==
  /\ pc = "ner"
  /\ call < Len(NerModels)
  /\ call' = call + 1
  /\ LET p == show_ner_pipeline(NerModels[call + 1], call + 1)
     IN  /\ loads' = p.loads
         /\ local_nlp' = p.pipeline
  /\ pc' = "ner_annotate"
  /\ UNCHANGED <<script, out, i, textVars, nlp, annotations, ents,
                 reportVars, chunkVars, exportVars>>

\* doc = nlp(text): the local pipeline on the argument, which is the global text
show_ner_annotate ==
  /\ pc = "ner_annotate"
  /\ annotations' = Annotate(local_nlp, text, "show_ner", call)
  /\ ents' \in EntityLists
  /\ pc' = "ner_header"
  /\ UNCHANGED <<script, out, i, textVars, nlp, loads, call, local_nlp,
                 reportVars, chunkVars, exportVars>>

\* print(f'\nNER MODEL: {ner_model}') ; print('TYPE TEXT')
show_ner_header ==
  /\ pc = "ner_header"
  /\ out' = out \o << [kind |-> "ner_model", model |-> NerModels[call]],
                      [kind |-> "ner_columns"] >>
  /\ i' = 0
  /\ pc' = "ner_rows"
  /\ UNCHANGED <<script, textVars, nerVars, reportVars, chunkVars, exportVars>>

\* for ent in doc.ents: print(label, text)
show_ner_row ==
  /\ pc = "ner_rows"
  /\ i < Len(ents)
  /\ out' = Append(out, [kind |-> "entity", label |-> ents[i + 1].label,
                         text |-> ents[i + 1].text])
  /\ i' = i + 1
  /\ UNCHANGED <<script, pc, textVars, nerVars, reportVars, chunkVars, exportVars>>

\* the loop ends and show_ner returns: its locals are gone
show_ner_return ==
  /\ pc = "ner_rows"
  /\ i = Len(ents)
  /\ local_nlp' = 0
  /\ ents' = <<>>
  /\ pc' = "ner"
  /\ UNCHANGED <<script, out, i, textVars, nlp, loads, annotations, call,
                 reportVars, chunkVars, exportVars>>

\* scispacy.py 179-180: nlp = spacy.load('en_core_sci_sm') ; doc = nlp(text).
\* stanza_bio.py ends with the last show_ner call
ReloadMain ==
  /\ pc = "ner"
  /\ call = Len(NerModels)
  /\ IF script = "scispacy"
     THEN /\ loads' = Load(MainModel, "main", 0)
          /\ nlp' = Len(loads')
          /\ annotations' = Annotate(nlp', text, "main", 0)
     ELSE UNCHANGED <<loads, nlp, annotations>>
  /\ pc' = "done"
  /\ UNCHANGED <<script, out, i, textVars, call, local_nlp, ents,
                 reportVars, chunkVars, exportVars>>

InitText ==
  /\ script \in Scripts
  /\ pc = "load"
  /\ out = <<>>
  /\ i = 0
  /\ raw \in Texts
  /\ text = <<>>
  /\ NoNer /\ NoReport /\ NoChunks /\ NoExport

NextText == LoadMain \/ PrintRaw \/ NormalizeText \/ AnnotateMain

\* The normalizer, on every text up to MaxLen and on the sample texts
SpecText == InitText /\ [][NextText]_vars

InitNer ==
  /\ script \in Scripts
  /\ pc = "load"
  /\ out = <<>>
  /\ i = 0
  /\ raw \in {SampleText, ExampleText, TabbedText}
  /\ text = <<>>
  /\ NoNer /\ NoReport /\ NoChunks /\ NoExport

NextNer ==
  \/ LoadMain \/ PrintRaw \/ NormalizeText \/ AnnotateMain
  \/ show_ner_load \/ show_ner_annotate \/ show_ner_header
  \/ show_ner_row \/ show_ner_return \/ ReloadMain

\* The script from the load of the main pipeline to the entity reports
SpecNer == InitNer /\ [][NextNer]_vars

-----------------------------------------------------------------------------
(* Claims about the text normalizer (SpecText) *)

\* The global text holds the normalized literal
Normalized == pc \notin {"load", "define_text", "normalize"}

\* Position k of s starts a newline run or holds another character
StartsOutput(s, k) == s[k] # "\n" \/ k = 1 \/ s[k - 1] # "\n"

\* s with each maximal run of newlines replaced by one space, stated per
\* position: a position that starts a newline run gives a space, a position
\* inside a run gives nothing, every other position gives its character
RunsToSpaces(s) ==
  LET positions == SelectSeq([k \in 1..Len(s) |-> k], LAMBDA k : StartsOutput(s, k))
  IN  [k \in 1..Len(positions) |->
         IF s[positions[k]] = "\n" THEN " " ELSE s[positions[k]]]

\* t is m without its leading and trailing whitespace
IsTrimOf(t, m) ==
  /\ t = <<>> \/ (t[1] \notin Whitespace /\ t[Len(t)] \notin Whitespace)
  /\ \E a \in 1..(Len(m) + 1) :
       /\ a + Len(t) - 1 <= Len(m)
       /\ t = SubSeq(m, a, a + Len(t) - 1)
       /\ \A k \in 1..Len(m) : (k < a \/ k > a + Len(t) - 1) => m[k] \in Whitespace

\* C1: the normalized text is the literal with every maximal run of newlines
\* replaced by exactly one space and the leading and trailing whitespace
\* removed; every other character is kept, in order ("a\n\nb\nc " gives "a b c")
C1_NormalizerContract ==
  Normalized =>
    /\ IsTrimOf(text, RunsToSpaces(raw))
    /\ (raw = ExampleText => text = <<"a", " ", "b", " ", "c">>)

C1_Witness ==
  /\ Normalized
  /\ raw = TabbedText
  /\ text = <<"a", "\t", " ", "b", " ", " ", "c">>

\* C2: normalizing the normalized text returns it unchanged
C2_Idempotent == Normalized => Normalize(text) = text

C2_Witness ==
  /\ Normalized
  /\ raw = ExampleText
  /\ text # raw
  /\ text = <<"a", " ", "b", " ", "c">>

NewlineRuns(s) == Cardinality({k \in 1..Len(s) : s[k] = "\n" /\ StartsOutput(s, k)})
Newlines(s) == Cardinality({k \in 1..Len(s) : s[k] = "\n"})
HasNewline(s) == \E k \in 1..Len(s) : s[k] = "\n"

\* C8 as stated: the normalized sample paragraph has no newline and is shorter
\* than the literal by one character per newline run
C8_OneCharacterPerRun ==
  (Normalized /\ raw = SampleText) =>
    /\ ~HasNewline(text)
    /\ Len(text) = Len(raw) - NewlineRuns(raw)

\* C8 amended: the normalized sample paragraph has no newline and is shorter
\* than the literal by two characters: each of its newline runs is a single
\* newline, replaced one for one by a space, and only the spaces that replace
\* the leading and the trailing newline are stripped
C8_SampleLength ==
  (Normalized /\ raw = SampleText) =>
    /\ ~HasNewline(text)
    /\ Newlines(raw) = NewlineRuns(raw)
    /\ raw[1] = "\n" /\ raw[Len(raw)] = "\n"
    /\ Len(text) = Len(raw) - 2

C8_Witness ==
  /\ Normalized
  /\ raw = SampleText
  /\ Len(text) < Len(raw)
  /\ text[1] = "C"

-----------------------------------------------------------------------------
(* Claims about the entity reporter (SpecNer) *)

LoadsBy(by) == {k \in 1..Len(loads) : loads[k].by = by}
AnnotationsBy(by) == {k \in 1..Len(annotations) : annotations[k].by = by}
Headers == {k \in 1..Len(out) : out[k].kind = "ner_model"}
EntityRows == {k \in 1..Len(out) : out[k].kind = "entity"}
InShowNer == pc \in {"ner_annotate", "ner_header", "ner_rows"}

\* C9: every show_ner call loads its own pipeline for the requested model
\* before it annotates (as many loads as calls, no pipeline of an earlier call
\* or of the main script is used), annotates the same normalized text, and
\* prints its model-name header before its entity rows and before the header
\* of the next call
C9_ShowNerLoadsAndOrder ==
  /\ Cardinality(LoadsBy("show_ner")) = call
  /\ \A c \in 1..call :
       \E k \in LoadsBy("show_ner") :
         loads[k].call = c /\ loads[k].model = NerModels[c]
  /\ Cardinality(AnnotationsBy("show_ner")) =
       (IF pc = "ner_annotate" THEN call - 1 ELSE call)
  /\ \A a \in AnnotationsBy("show_ner") :
       /\ annotations[a].pipeline \in LoadsBy("show_ner")
       /\ loads[annotations[a].pipeline].call = annotations[a].call
       /\ annotations[a].pipeline # nlp
       /\ annotations[a].text = Normalize(raw)
       /\ \A b \in AnnotationsBy("show_ner") :
            a # b => annotations[a].pipeline # annotations[b].pipeline
  /\ InShowNer => local_nlp \in LoadsBy("show_ner") /\ loads[local_nlp].call = call
  /\ Cardinality(Headers) =
       (IF pc \in {"ner_annotate", "ner_header"} THEN call - 1 ELSE call)
  /\ \A h \in Headers :
       out[h].model = NerModels[Cardinality({g \in Headers : g <= h})]
  /\ \A e \in EntityRows : \E h \in Headers : h < e
  /\ pc = "ner_rows" =>
       \E h \in Headers :
         /\ out[h].model = NerModels[call]
         /\ Len(out) = h + 1 + i
         /\ \A k \in 1..i :
              /\ out[h + 1 + k].kind = "entity"
              /\ out[h + 1 + k].text = ents[k].text
              /\ out[h + 1 + k].label = ents[k].label

C9_Witness ==
  /\ script = "scispacy"
  /\ pc = "done"
  /\ call = Len(NerModels)
  /\ Cardinality(LoadsBy("show_ner")) = 4
  /\ EntityRows # {}
  /\ raw = SampleText

-----------------------------------------------------------------------------
(* The annotated document of the token and dependency reports *)

MaxTokens == 3     \* most tokens of a document

TokenTexts == {"a", "b"}

\* A sentence is a sequence of words, each with its text and the position of
\* its head in the sentence (1-based, 0 for the root of the sentence)
RECURSIVE ReachesRoot(_, _, _)
ReachesRoot(s, k, n) ==
  \/ s[k].head = 0
  \/ n > 0 /\ ReachesRoot(s, s[k].head, n - 1)

\* The parser returns one tree per sentence
IsTree(s) ==
  /\ Cardinality({k \in DOMAIN s : s[k].head = 0}) = 1
  /\ \A k \in DOMAIN s : s[k].head # k /\ ReachesRoot(s, k, Len(s))

SentencesOf(n) == {s \in [1..n -> [text : TokenTexts, head : 0..n]] : IsTree(s)}

\* The documents of at most n tokens: sequences of non-empty sentences
RECURSIVE DocsUpTo(_)
DocsUpTo(n) ==
  {<<>>} \cup UNION {{<<s>> \o d : s \in SentencesOf(k), d \in DocsUpTo(n - k)} : k \in 1..n}

\* Number of tokens before sentence number s of the document
RECURSIVE Offset(_, _)
Offset(d, s) == IF s <= 1 THEN 0 ELSE Offset(d, s - 1) + Len(d[s - 1])

\* spaCy: the tokens of the document in order; token.i is the 0-based index
\* in the document and token.head is the token itself for the root
RECURSIVE TokensFrom(_, _)
TokensFrom(d, s) ==
  IF s > Len(d) THEN <<>>
  ELSE [k \in 1..Len(d[s]) |->
          LET ti == Offset(d, s) + k - 1
              hi == IF d[s][k].head = 0 THEN ti ELSE Offset(d, s) + d[s][k].head - 1
          IN  [text |-> d[s][k].text, i |-> ti, head_i |-> hi,
               head_text |-> IF d[s][k].head = 0 THEN d[s][k].text
                             ELSE d[s][d[s][k].head].text]]
       \o TokensFrom(d, s + 1)

Tokens == TokensFrom(doc, 1)

\* stanza: the words of sentence s; word.id is the 1-based index in the sentence
Words(s) == [k \in 1..Len(doc[s]) |-> [id |-> k, text |-> doc[s][k].text, head |-> doc[s][k].head]]

\* stanza: sent.dependencies, one (head, deprel, word) per word in order; the
\* head of the root is an artificial word with id 0 and text "ROOT"
Dependencies(s) ==
  [k \in 1..Len(doc[s]) |->
     [src_word |-> IF Words(s)[k].head = 0 THEN [id |-> 0, text |-> "ROOT"]
                   ELSE [id |-> Words(s)[Words(s)[k].head].id,
                         text |-> Words(s)[Words(s)[k].head].text],
      tgt_word |-> [id |-> Words(s)[k].id, text |-> Words(s)[k].text]]]

-----------------------------------------------------------------------------
(* The token and dependency reports.  A row keeps the position and the text *)
(* columns; the remaining columns print attributes of the same token.       *)

\* A mutation: the token row prints token.head.i in the ID column
TokenRowHeadIndex(k) == [kind |-> "token", id |-> Tokens[k + 1].head_i, text |-> Tokens[k + 1].text]

\* scispacy.py 82-83: the row of the k-th token of enumerate(doc), k from 0
TokenRow(k) == [kind |-> "token", id |-> k + 1, text |-> Tokens[k + 1].text]

\* scispacy.py 95-97: head = 'ROOT' if token.head.i == token.i else token.head.text
DepRow(k) ==
  LET token == Tokens[k + 1]
      head == IF token.head_i = token.i THEN "ROOT" ELSE token.head_text
  IN  [kind |-> "dep", id |-> k + 1, text |-> token.text,
       head_text |-> head, head_id |-> token.head_i]

\* stanza_bio.py 108-109
WordRow(word) == [kind |-> "token", id |-> word.id, text |-> word.text]

\* stanza_bio.py 121-123
StanzaDepRow(dep) ==
  [kind |-> "dep", id |-> dep.tgt_word.id, text |-> dep.tgt_word.text,
   head_text |-> dep.src_word.text, head_id |-> dep.src_word.id]

Header(name) == [kind |-> "header", name |-> name]

\* scispacy.py 78
token_header ==
  /\ script = "scispacy" /\ pc = "tokens"
  /\ out' = Append(out, Header("tokens"))
  /\ i' = 0
  /\ pc' = "token_rows"
  /\ UNCHANGED <<script, textVars, nerVars, reportVars, chunkVars, exportVars>>

\* scispacy.py 79-83
token_row ==
  /\ script = "scispacy" /\ pc = "token_rows"
  /\ i < Len(Tokens)
  /\ out' = Append(out, TokenRow(i))
  /\ i' = i + 1
  /\ UNCHANGED <<script, pc, textVars, nerVars, reportVars, chunkVars, exportVars>>

\* scispacy.py 79-85: the token loop ends, the sentence loop starts
token_end ==
  /\ script = "scispacy" /\ pc = "token_rows"
  /\ i = Len(Tokens)
  /\ si' = 0
  /\ pc' = "sentences"
  /\ UNCHANGED <<script, out, i, textVars, nerVars, doc, chunkVars, exportVars>>

\* scispacy.py 85-87: one row per sentence of doc.sents
sentence_row ==
  /\ script = "scispacy" /\ pc = "sentences"
  /\ si < Len(doc)
  /\ out' = Append(out, [kind |-> "sentence", id |-> si + 1,
                         text |-> [k \in 1..Len(doc[si + 1]) |-> doc[si + 1][k].text]])
  /\ si' = si + 1
  /\ UNCHANGED <<script, pc, i, textVars, nerVars, doc, chunkVars, exportVars>>

\* scispacy.py 93
dep_header ==
  /\ script = "scispacy" /\ pc = "sentences"
  /\ si = Len(doc)
  /\ out' = Append(out, Header("dependencies"))
  /\ i' = 0
  /\ pc' = "dep_rows"
  /\ UNCHANGED <<script, textVars, nerVars, reportVars, chunkVars, exportVars>>

\* scispacy.py 94-97
dep_row ==
  /\ script = "scispacy" /\ pc = "dep_rows"
  /\ i < Len(Tokens)
  /\ out' = Append(out, DepRow(i))
  /\ i' = i + 1
  /\ UNCHANGED <<script, pc, textVars, nerVars, reportVars, chunkVars, exportVars>>

dep_end ==
  /\ script = "scispacy" /\ pc = "dep_rows"
  /\ i = Len(Tokens)
  /\ pc' = "done"
  /\ UNCHANGED <<script, out, i, textVars, nerVars, reportVars, chunkVars, exportVars>>

\* stanza_bio.py 104-106: the next sentence of doc.sentences, its two headers
words_sentence ==
  /\ script = "stanza_bio" /\ pc = "tokens"
  /\ si < Len(doc)
  /\ si' = si + 1
  /\ out' = out \o <<[kind |-> "sentence", id |-> si + 1], Header("tokens")>>
  /\ i' = 0
  /\ pc' = "word_rows"
  /\ UNCHANGED <<script, textVars, nerVars, doc, chunkVars, exportVars>>

\* stanza_bio.py 107-109
word_row ==
  /\ script = "stanza_bio" /\ pc = "word_rows"
  /\ i < Len(Words(si))
  /\ out' = Append(out, WordRow(Words(si)[i + 1]))
  /\ i' = i + 1
  /\ UNCHANGED <<script, pc, textVars, nerVars, reportVars, chunkVars, exportVars>>

\* stanza_bio.py 110
words_end ==
  /\ script = "stanza_bio" /\ pc = "word_rows"
  /\ i = Len(Words(si))
  /\ out' = Append(out, [kind |-> "blank"])
  /\ pc' = "tokens"
  /\ UNCHANGED <<script, i, textVars, nerVars, reportVars, chunkVars, exportVars>>

\* stanza_bio.py 114
stanza_dep_header ==
  /\ script = "stanza_bio" /\ pc = "tokens"
  /\ si = Len(doc)
  /\ out' = Append(out, Header("dependencies"))
  /\ si' = 0
  /\ pc' = "deps"
  /\ UNCHANGED <<script, i, textVars, nerVars, doc, chunkVars, exportVars>>

\* stanza_bio.py 115-117
deps_sentence ==
  /\ script = "stanza_bio" /\ pc = "deps"
  /\ si < Len(doc)
  /\ si' = si + 1
  /\ out' = out \o <<[kind |-> "sentence", id |-> si + 1], Header("dependencies")>>
  /\ i' = 0
  /\ pc' = "stanza_dep_rows"
  /\ UNCHANGED <<script, textVars, nerVars, doc, chunkVars, exportVars>>

\* stanza_bio.py 118-123
stanza_dep_row ==
  /\ script = "stanza_bio" /\ pc = "stanza_dep_rows"
  /\ i < Len(Dependencies(si))
  /\ out' = Append(out, StanzaDepRow(Dependencies(si)[i + 1]))
  /\ i' = i + 1
  /\ UNCHANGED <<script, pc, textVars, nerVars, reportVars, chunkVars, exportVars>>

\* stanza_bio.py 124
deps_end ==
  /\ script = "stanza_bio" /\ pc = "stanza_dep_rows"
  /\ i = Len(Dependencies(si))
  /\ out' = Append(out, [kind |-> "blank"])
  /\ pc' = "deps"
  /\ UNCHANGED <<script, i, textVars, nerVars, reportVars, chunkVars, exportVars>>

stanza_deps_done ==
  /\ script = "stanza_bio" /\ pc = "deps"
  /\ si = Len(doc)
  /\ pc' = "done"
  /\ UNCHANGED <<script, out, i, textVars, nerVars, reportVars, chunkVars, exportVars>>

InitReport ==
  /\ script \in Scripts
  /\ pc = "tokens"
  /\ out = <<>>
  /\ i = 0
  /\ doc \in DocsUpTo(MaxTokens)
  /\ si = 0
  /\ NoText /\ NoNer /\ NoChunks /\ NoExport

NextReport ==
  \/ token_header \/ token_row \/ token_end \/ sentence_row
  \/ dep_header \/ dep_row \/ dep_end
  \/ words_sentence \/ word_row \/ words_end \/ stanza_dep_header
  \/ deps_sentence \/ stanza_dep_row \/ deps_end \/ stanza_deps_done

\* The token and dependency reports of both scripts, on every document of at
\* most MaxTokens tokens
SpecReport == InitReport /\ [][NextReport]_vars

-----------------------------------------------------------------------------
(* Claims about the reports (SpecReport) *)

TokenRows == {k \in 1..Len(out) : out[k].kind = "token"}
DepRows == {k \in 1..Len(out) : out[k].kind = "dep"}

\* The rows of out, in order, whose place is in the set rows
RECURSIVE RowsIn(_, _)
RowsIn(rows, k) ==
  IF k > Len(out) THEN <<>>
  ELSE (IF k \in rows THEN <<out[k]>> ELSE <<>>) \o RowsIn(rows, k + 1)

\* The words of the document in input order
RECURSIVE DocWords(_)
DocWords(s) == IF s > Len(doc) THEN <<>> ELSE doc[s] \o DocWords(s + 1)

\* The token rows printed so far show the first words of the document, in order
InputOrder ==
  LET rows == RowsIn(TokenRows, 1)
  IN  /\ Len(rows) <= Len(DocWords(1))
      /\ \A k \in 1..Len(rows) : rows[k].text = DocWords(1)[k].text

\* C4 as stated: in every dependency row the printed head position equals
\* the printed position of the token itself if and only if the printed head
\* text is "ROOT"
C4_HeadPositionIffRoot ==
  \A k \in DepRows : (out[k].head_id = out[k].id) <=> (out[k].head_text = "ROOT")

\* C7 as stated: token rows come in input order and every token row prints a
\* position greater than the one of the token row before it in the report
C7_IncreasingInDocument ==
  /\ InputOrder
  /\ LET rows == RowsIn(TokenRows, 1)
     IN  \A k \in 1..(Len(rows) - 1) : rows[k + 1].id > rows[k].id

\* C7 amended: token rows come in input order, and every token row that
\* directly follows another token row (the spaCy report is one block, the
\* stanza report has one block per sentence, under its SENTENCE header)
\* prints a position greater than that row; each block starts at 1
C7_IncreasingInBlock ==
  /\ InputOrder
  /\ \A k \in TokenRows :
       IF k - 1 \in TokenRows
       THEN out[k].id = out[k - 1].id + 1
       ELSE out[k].id = 1

C7_Witness ==
  /\ script = "stanza_bio"
  /\ pc = "done"
  /\ Len(doc) = 2
  /\ Len(doc[1]) = 2
  /\ Cardinality(TokenRows) = 3
  /\ \E k \in TokenRows : k - 1 \in TokenRows /\ out[k].text # out[k - 1].text

-----------------------------------------------------------------------------
(* The rule-based chunk matcher (scispacy.py 205-276) *)

MaxDocLen == 4     \* most tokens of an enumerated tagged document

\* Fine-grained tags, each a string of characters
PennTags == {<<"D", "T">>, <<"J", "J">>, <<"N", "N", "S">>, <<"V", "B">>}

\* The tags of the example of the docstring: a mosquitocidal Bacillus thuringiensis
DocstringTags == << <<"D", "T">>, <<"J", "J">>, <<"J", "J">>, <<"N", "N">> >>

\* Two noun phrases with a verb between them
TwoPhraseTags == << <<"J", "J", "R">>, <<"N", "N">>, <<"V", "B">>, <<"J", "J">>, <<"N", "N", "P">> >>

TagSeqs == UNION {[1..n -> PennTags] : n \in 0..MaxDocLen} \cup {DocstringTags, TwoPhraseTags}

\* scispacy.py 269-273: <DT>?<JJ.*>*<NN.*>+ ; REGEX holds the characters the
\* regular expression starts with, before its final .*
pattern ==
  << [TAG |-> <<"D", "T">>, REGEX |-> FALSE, OP |-> "?"],
     [TAG |-> <<"J", "J">>, REGEX |-> TRUE, OP |-> "*"],
     [TAG |-> <<"N", "N">>, REGEX |-> TRUE, OP |-> "+"] >>

\* "TAG": "DT" compares the tag; {"REGEX": "JJ.*"} searches the tag for the
\* expression, which matches wherever the tag holds its first characters
TokenMatches(spec, tag) ==
  IF spec.REGEX
  THEN \E a \in 1..Len(tag) :
         /\ a + Len(spec.TAG) - 1 <= Len(tag)
         /\ SubSeq(tag, a, a + Len(spec.TAG) - 1) = spec.TAG
  ELSE tag = spec.TAG

\* The ends (exclusive, 0-based) of the matches of pattern[p..] that start at
\* token pos: ? zero or one, * zero or more, + one or more of the token
RECURSIVE MatchEnds(_, _)
MatchEnds(p, pos) ==
  IF p > Len(pattern) THEN {pos}
  ELSE LET spec == pattern[p]
           one  == pos < Len(tags) /\ TokenMatches(spec, tags[pos + 1])
       IN  CASE spec.OP = "?" ->
                  MatchEnds(p + 1, pos) \cup (IF one THEN MatchEnds(p + 1, pos + 1) ELSE {})
             [] spec.OP = "*" ->
                  MatchEnds(p + 1, pos) \cup (IF one THEN MatchEnds(p, pos + 1) ELSE {})
             [] spec.OP = "+" ->
                  IF one THEN MatchEnds(p + 1, pos + 1) \cup MatchEnds(p, pos + 1) ELSE {}

\* matcher(doc): every non-empty span of the document that matches the pattern
MatchSet ==
  {m \in [start : 0..Len(tags), end : 0..Len(tags)] :
     m.start < m.end /\ m.end \in MatchEnds(1, m.start)}

\* The orders the matcher may report its matches in
MatchOrders == {"by_end", "by_start", "by_end_reversed"}

Before(order, a, b) ==
  CASE order = "by_end" -> a.end < b.end \/ (a.end = b.end /\ a.start < b.start)
    [] order = "by_start" -> a.start < b.start \/ (a.start = b.start /\ a.end < b.end)
    [] order = "by_end_reversed" -> b.end < a.end \/ (a.end = b.end /\ b.start < a.start)

RECURSIVE InOrder(_, _)
InOrder(S, order) ==
  IF S = {} THEN <<>>
  ELSE LET first == CHOOSE a \in S : \A b \in S \ {a} : Before(order, a, b)
       IN  <<first>> \o InOrder(S \ {first}, order)

\* filter_spans: get_sort_key = (span.end - span.start, -span.start), sorted
\* with reverse=True: a comes before b when its key is greater
LongerFirst(a, b) ==
  \/ a.end - a.start > b.end - b.start
  \/ a.end - a.start = b.end - b.start /\ 0 - a.start > 0 - b.start

ByStart(a, b) == a.start < b.start

\* The comparison of a sort key
Less(key, a, b) ==
  CASE key = "get_sort_key_reversed" -> LongerFirst(a, b)
    [] key = "start" -> ByStart(a, b)

\* sorted(): a stable insertion of x into the sorted sequence s
RECURSIVE Insert(_, _, _)
Insert(s, x, key) ==
  IF s = <<>> THEN <<x>>
  ELSE IF Less(key, x, s[1]) THEN <<x>> \o s
       ELSE <<s[1]>> \o Insert(Tail(s), x, key)

RECURSIVE Sorted(_, _)
Sorted(s, key) ==
  IF s = <<>> THEN <<>>
  ELSE Insert(Sorted(SubSeq(s, 1, Len(s) - 1), key), s[Len(s)], key)

\* filter_spans, the loop: a span is kept when neither its first nor its last
\* token has been seen; its tokens are then added to seen_tokens
RECURSIVE KeepUnseen(_, _)
KeepUnseen(s, seen_tokens) ==
  IF s = <<>> THEN <<>>
  ELSE IF s[1].start \notin seen_tokens /\ (s[1].end - 1) \notin seen_tokens
       THEN <<s[1]>> \o KeepUnseen(Tail(s), seen_tokens \cup (s[1].start..(s[1].end - 1)))
       ELSE KeepUnseen(Tail(s), seen_tokens)

\* A mutation: filter_spans without the final sort by start
filter_spans_unsorted(spans) == KeepUnseen(Sorted(spans, "get_sort_key_reversed"), {})

\* spacy.util.filter_spans(spans)
filter_spans(spans) ==
  Sorted(KeepUnseen(Sorted(spans, "get_sort_key_reversed"), {}), "start")

\* scispacy.py 244-246: span = doc[start:end] for every match
Spans(ms) == [k \in 1..Len(ms) |-> [start |-> ms[k].start, end |-> ms[k].end]]

\* A mutation: return chunk_spans, the unfiltered list
unfiltered_chunks(ms) == Spans(ms)

\* scispacy.py 242-249: what get_matched_pos_chunks returns for the matches ms
longest_spans(ms) == filter_spans(Spans(ms))

\* scispacy.py 262-263: the row of the k-th span of enumerate(chunk_spans);
\* the text of a token is named by its position in the document
ChunkRow(k) ==
  LET span == chunk_spans[k + 1]
  IN  [kind |-> "chunk", id |-> k + 1,
       pos_tags |-> [t \in 1..(span.end - span.start) |-> tags[span.start + t]],
       text |-> [t \in 1..(span.end - span.start) |-> span.start + t - 1]]

\* chunk_spans = get_matched_pos_chunks(doc, pattern)
get_matched_pos_chunks ==
  /\ pc = "match"
  /\ \E order \in MatchOrders :
       matches' = [k \in 1..Cardinality(MatchSet) |->
                     [match_id |-> "CHUNKS", start |-> InOrder(MatchSet, order)[k].start,
                      end |-> InOrder(MatchSet, order)[k].end]]
  /\ chunk_spans' = longest_spans(matches')
  /\ pc' = "print"
  /\ UNCHANGED <<script, out, i, textVars, nerVars, reportVars, tags, exportVars>>

\* pretty_print_chunks(chunk_spans), scispacy.py 260
chunks_header ==
  /\ pc = "print"
  /\ out' = Append(out, Header("chunks"))
  /\ i' = 0
  /\ pc' = "chunk_rows"
  /\ UNCHANGED <<script, textVars, nerVars, reportVars, chunkVars, exportVars>>

\* scispacy.py 261-263
chunk_row ==
  /\ pc = "chunk_rows"
  /\ i < Len(chunk_spans)
  /\ out' = Append(out, ChunkRow(i))
  /\ i' = i + 1
  /\ UNCHANGED <<script, pc, textVars, nerVars, reportVars, chunkVars, exportVars>>

chunks_end ==
  /\ pc = "chunk_rows"
  /\ i = Len(chunk_spans)
  /\ pc' = "done"
  /\ UNCHANGED <<script, out, i, textVars, nerVars, reportVars, chunkVars, exportVars>>

InitChunks ==
  /\ script = "scispacy"
  /\ pc = "match"
  /\ out = <<>>
  /\ i = 0
  /\ tags \in TagSeqs
  /\ matches = <<>>
  /\ chunk_spans = <<>>
  /\ NoText /\ NoNer /\ NoReport /\ NoExport

NextChunks == get_matched_pos_chunks \/ chunks_header \/ chunk_row \/ chunks_end

\* The chunk matcher on every tagged document of at most MaxDocLen tokens
SpecChunks == InitChunks /\ [][NextChunks]_vars

-----------------------------------------------------------------------------
(* Claims about the chunk matcher (SpecChunks) *)

Candidates == {[start |-> matches[k].start, end |-> matches[k].end] : k \in 1..Len(matches)}
Kept == {chunk_spans[k] : k \in 1..Len(chunk_spans)}
SpanLen(a) == a.end - a.start

\* Two spans overlap when they share a token
Overlap(a, b) == a.start < b.end /\ b.start < a.end

\* Some candidate holds token p - 1 and token p
Bridged(p) == \E c \in Candidates : c.start < p /\ p < c.end

\* Two candidates are in one cluster when a chain of overlapping candidates
\* leads from one to the other
SameCluster(a, b) ==
  LET lo == IF a.start < b.start THEN a.start ELSE b.start
      hi == IF a.start < b.start THEN b.start ELSE a.start
  IN  \A p \in (lo + 1)..hi : Bridged(p)

Matched == pc # "match"

\* C3: of the candidate spans the matcher returns, get_matched_pos_chunks
\* keeps exactly the longest span of each cluster of overlapping spans; a span
\* that a longer candidate covers fully or partially is discarded and a span
\* that overlaps no other candidate is kept ([0,4), [1,4), [2,4), [3,4) leave
\* [0,4); disjoint phrases are both kept)
C3_LongestPerCluster ==
  Matched =>
    /\ Kept \subseteq Candidates
    /\ \A c \in Candidates :
         /\ (\A d \in Candidates \ {c} : ~Overlap(c, d)) => c \in Kept
         /\ (\E d \in Candidates : Overlap(c, d) /\ SpanLen(d) > SpanLen(c)) => c \notin Kept
         /\ \E k \in Kept :
              /\ SameCluster(c, k)
              /\ \A d \in Candidates : SameCluster(d, k) => SpanLen(d) <= SpanLen(k)
              /\ \A j \in Kept : SameCluster(c, j) => j = k
    /\ tags = DocstringTags =>
         /\ Candidates = {[start |-> s, end |-> 4] : s \in 0..3}
         /\ chunk_spans = <<[start |-> 0, end |-> 4]>>
    /\ tags = TwoPhraseTags =>
         chunk_spans = <<[start |-> 0, end |-> 2], [start |-> 3, end |-> 5]>>

C3_Witness ==
  /\ pc = "done"
  /\ tags = DocstringTags
  /\ Cardinality(Candidates) = 4
  /\ Kept = {[start |-> 0, end |-> 4]}

\* C10: the returned spans are in document order, by strictly increasing
\* start, in whatever order the matcher reported the candidates, and the
\* k-th printed row shows the tags and the text of the k-th returned span
C10_DocumentOrder ==
  Matched =>
    /\ \A k \in 1..(Len(chunk_spans) - 1) : chunk_spans[k].start < chunk_spans[k + 1].start
    /\ \A k \in 1..Len(chunk_spans) : chunk_spans[k] \in Candidates
    /\ LET rows == SelectSeq(out, LAMBDA r : r.kind = "chunk")
       IN  /\ Len(rows) <= Len(chunk_spans)
           /\ \A k \in 1..Len(rows) :
                /\ rows[k].id = k
                /\ Len(rows[k].pos_tags) = SpanLen(chunk_spans[k])
                /\ Len(rows[k].text) = SpanLen(chunk_spans[k])
                /\ \A t \in 1..SpanLen(chunk_spans[k]) :
                     /\ rows[k].text[t] = chunk_spans[k].start + t - 1
                     /\ rows[k].pos_tags[t] = tags[rows[k].text[t] + 1]

C10_Witness ==
  /\ pc = "done"
  /\ Len(chunk_spans) = 2
  /\ Len(SelectSeq(out, LAMBDA r : r.kind = "chunk")) = 2
  /\ Len(matches) > 2
  /\ matches[1].start > matches[Len(matches)].start

-----------------------------------------------------------------------------
(* The diagram exporter (scispacy.py 99-109) and the stages after it *)

MaxSents == 2      \* most sentences of the exporter's document
MaxRuns == 2       \* most invocations of the script

\* An entry of the directory: name k > 0 is sentence-k.svg, name 0 is any
\* other entry; run is the invocation that wrote it (0: before the first);
\* complete tells whether the whole diagram was written
Stale == {[name |-> n, run |-> 0, complete |-> TRUE] : n \in 0..(MaxSents + 1)}

\* What the path spacy-deps may be before the first invocation
InitialEntries ==
  {[kind |-> "absent", files |-> {}], [kind |-> "file", files |-> {}]}
    \cup {[kind |-> "dir", files |-> F] : F \in SUBSET Stale}

\* A mutation: the exception is caught and ignored
Swallow(continuation) == continuation

\* An exception is raised at module level and nothing catches it: the script
\* ends; `continuation` is where the script would go on if it were caught
Raise(continuation) == "crashed"

\* A mutation: the file is named by the 0-based index, sentence-{i}.svg
SvgNameZeroBased(k) == k

\* scispacy.py 106: os.path.join('spacy-deps', f'sentence-{i+1}.svg')
SvgName(k) == k + 1

\* scispacy.py 108-109: open('w') creates or truncates the file, write fills it
Written(files, name, complete) ==
  {f \in files : f.name # name} \cup {[name |-> name, run |-> run, complete |-> complete]}

\* scispacy.py 101: if os.path.exists('spacy-deps')
exists_check ==
  /\ pc = "export"
  /\ pc' = IF fs.kind # "absent" THEN "rmtree" ELSE "mkdir"
  /\ UNCHANGED <<script, out, i, textVars, nerVars, reportVars, chunkVars, exportVars>>

\* scispacy.py 102: shutil.rmtree('spacy-deps') removes the directory and
\* everything in it
rmtree ==
  /\ pc = "rmtree"
  /\ fs.kind = "dir"
  /\ fs' = [kind |-> "absent", files |-> {}]
  /\ pc' = "mkdir"
  /\ UNCHANGED <<script, out, i, textVars, nerVars, reportVars, chunkVars,
                 run, sents, history, err, steps>>

\* shutil.rmtree raises: the path is not a directory, or an entry cannot be
\* removed, after any part of the content has been deleted
rmtree_fails ==
  /\ pc = "rmtree"
  /\ \/ fs.kind = "file" /\ fs' = fs
     \/ fs.kind = "dir" /\ \E F \in SUBSET fs.files : fs' = [fs EXCEPT !.files = F]
  /\ err' = "rmtree"
  /\ pc' = Raise("mkdir")
  /\ UNCHANGED <<script, out, i, textVars, nerVars, reportVars, chunkVars,
                 run, sents, history, steps>>

\* scispacy.py 104: os.mkdir('spacy-deps')
mkdir ==
  /\ pc = "mkdir"
  /\ fs.kind = "absent"
  /\ fs' = [kind |-> "dir", files |-> {}]
  /\ i' = 0
  /\ pc' = "write"
  /\ UNCHANGED <<script, out, textVars, nerVars, reportVars, chunkVars,
                 run, sents, history, err, steps>>

\* os.mkdir raises (permission denied, no space, the path exists)
mkdir_fails ==
  /\ pc = "mkdir"
  /\ err' = "mkdir"
  /\ pc' = Raise("write")
  /\ UNCHANGED <<script, out, i, textVars, nerVars, reportVars, chunkVars,
                 fs, run, sents, history, steps>>

\* scispacy.py 105-109: the diagram of the next sentence of doc.sents is written
write_svg ==
  /\ pc = "write"
  /\ i < sents
  /\ fs' = [fs EXCEPT !.files = Written(fs.files, SvgName(i), TRUE)]
  /\ i' = i + 1
  /\ UNCHANGED <<script, pc, out, textVars, nerVars, reportVars, chunkVars,
                 run, sents, history, err, steps>>

\* output_path.open('w', ...) raises: no file is created
open_fails ==
  /\ pc = "write"
  /\ i < sents
  /\ err' = "open"
  /\ pc' = Raise("write")
  /\ UNCHANGED <<script, out, i, textVars, nerVars, reportVars, chunkVars,
                 fs, run, sents, history, steps>>

\* .write(svg) raises (disk full): the file exists, its content is incomplete
write_fails ==
  /\ pc = "write"
  /\ i < sents
  /\ fs' = [fs EXCEPT !.files = Written(fs.files, SvgName(i), FALSE)]
  /\ err' = "write"
  /\ pc' = Raise("write")
  /\ UNCHANGED <<script, out, i, textVars, nerVars, reportVars, chunkVars,
                 run, sents, history, steps>>

\* the loop over doc.sents ends
export_end ==
  /\ pc = "write"
  /\ i = sents
  /\ steps' = Append(steps, "diagram_export")
  /\ pc' = "noun_chunks"
  /\ UNCHANGED <<script, out, i, textVars, nerVars, reportVars, chunkVars,
                 fs, run, sents, history, err>>

\* scispacy.py 118-128: the noun-chunk report
noun_chunk_report ==
  /\ pc = "noun_chunks"
  /\ out' = Append(out, Header("noun_chunks"))
  /\ steps' = Append(steps, "noun_chunks")
  /\ pc' = "show_ner"
  /\ UNCHANGED <<script, i, textVars, nerVars, reportVars, chunkVars,
                 fs, run, sents, history, err>>

\* scispacy.py 152-161: the show_ner calls (their rows are those of SpecNer)
entity_reports ==
  /\ pc = "show_ner"
  /\ out' = Append(out, Header("show_ner"))
  /\ steps' = Append(steps, "show_ner")
  /\ pc' = "entities"
  /\ UNCHANGED <<script, i, textVars, nerVars, reportVars, chunkVars,
                 fs, run, sents, history, err>>

\* scispacy.py 179-202: the pipeline is loaded again, print_all_entities(doc)
print_all_entities ==
  /\ pc = "entities"
  /\ out' = Append(out, Header("entities"))
  /\ steps' = Append(steps, "print_all_entities")
  /\ pc' = "chunks"
  /\ UNCHANGED <<script, i, textVars, nerVars, reportVars, chunkVars,
                 fs, run, sents, history, err>>

\* scispacy.py 275-276: the rule-based chunk matching, the script ends
chunk_matching ==
  /\ pc = "chunks"
  /\ out' = Append(out, Header("chunks"))
  /\ steps' = Append(steps, "chunk_matching")
  /\ pc' = "done"
  /\ UNCHANGED <<script, i, textVars, nerVars, reportVars, chunkVars,
                 fs, run, sents, history, err>>

\* The script has ended and is invoked again, on a document of any length
invoke_again ==
  /\ pc \in {"done", "crashed"}
  /\ run < MaxRuns
  /\ run' = run + 1
  /\ history' = Append(history, [sents |-> sents, ended |-> pc])
  /\ sents' \in 0..MaxSents
  /\ err' = "none"
  /\ steps' = <<>>
  /\ out' = <<>>
  /\ i' = 0
  /\ pc' = "export"
  /\ UNCHANGED <<script, textVars, nerVars, reportVars, chunkVars, fs>>

InitExport ==
  /\ script = "scispacy"
  /\ pc = "export"
  /\ out = <<>>
  /\ i = 0
  /\ fs \in InitialEntries
  /\ run = 1
  /\ sents \in 0..MaxSents
  /\ history = <<>>
  /\ err = "none"
  /\ steps = <<>>
  /\ NoText /\ NoNer /\ NoReport /\ NoChunks

NextExport ==
  \/ exists_check \/ rmtree \/ rmtree_fails \/ mkdir \/ mkdir_fails
  \/ write_svg \/ open_fails \/ write_fails \/ export_end
  \/ noun_chunk_report \/ entity_reports \/ print_all_entities \/ chunk_matching
  \/ invoke_again

\* The exporter and the stages after it, over up to MaxRuns invocations
SpecExport == InitExport /\ [][NextExport]_vars

-----------------------------------------------------------------------------
(* Claims about the diagram exporter (SpecExport) *)

ExportCompleted == pc \in {"noun_chunks", "show_ner", "entities", "chunks", "done"}

\* C5: once the exporter has completed for a document of N sentences, the
\* directory spacy-deps holds exactly sentence-1.svg .. sentence-N.svg as
\* written by this invocation, whatever was there before and whatever an
\* earlier invocation wrote
C5_FullReplace ==
  ExportCompleted =>
    /\ fs.kind = "dir"
    /\ fs.files = {[name |-> k, run |-> run, complete |-> TRUE] : k \in 1..sents}

C5_Witness ==
  /\ pc = "done"
  /\ run = 2
  /\ history = <<[sents |-> 2, ended |-> "done"]>>
  /\ sents = 1
  /\ fs.files = {[name |-> 1, run |-> 2, complete |-> TRUE]}

\* C6: when rmtree, mkdir, open or write fails the script ends at once: the
\* step that fails executes no later stage and undoes nothing (the files this
\* invocation wrote stay, the entries it deleted stay deleted), and after it
\* this invocation changes neither the directory nor the output: no retry,
\* no further diagram, no later stage
C6_FailStop ==
  [][ /\ (err = "none" /\ err' # "none") =>
           /\ pc' = "crashed"
           /\ steps' = steps /\ out' = out
           /\ \A f \in fs.files : f.run = run => \E g \in fs'.files : g.name = f.name /\ g.run = run
           /\ err' \in {"mkdir", "open", "write"} => \A f \in fs'.files : f.run = run
      /\ err # "none" =>
           /\ pc = "crashed"
           /\ steps = <<>>
           /\ run' = run + 1 /\ pc' = "export"
    ]_vars

C6_Witness ==
  /\ pc = "crashed"
  /\ err = "write"
  /\ sents = 2
  /\ fs.files = {[name |-> 1, run |-> run, complete |-> TRUE],
                 [name |-> 2, run |-> run, complete |-> FALSE]}
  /\ steps = <<>>

=============================================================================
